---- MODULE Spec2Model ----
(***************************************************************************)
(* A model of the avro-rs object <-> Value bridge (src/ser.rs, src/de.rs)  *)
(* and of the structural validator (src/types.rs).                         *)
(***************************************************************************)
EXTENDS Integers, Sequences, FiniteSets, TLC

VARIABLES
    src,      \* codec: the typed source object handed to to_value (or NoSrc)
    value,    \* codec: the Value produced by to_value / handed to from_value
    target,   \* codec: the type the caller asks from_value for
    dec,      \* codec: the result of from_value
    pc,       \* codec: position of the encode/decode session
    sfields,  \* struct serializer: StructSerializer.fields
    scalls,   \* struct serializer: the serialize_field calls made so far
    sout,     \* struct serializer: what end() returned
    vvalue,   \* validator: the Value validated
    vschema,  \* validator: the Schema it is validated against
    vresult,  \* validator: what validate returned
    vpc,      \* validator: position of the validation
    rschema,  \* record builder: the Schema given to Record::new
    record,   \* record builder: what Record::new returned, as put has left it
    rputs,    \* record builder: the put calls made so far
    rpc,      \* record builder: position of the session
    ainput,   \* access session: the Value the request is made on
    akind,    \* access session: the request made (seq, map or struct)
    access,   \* access session: the Seq/Map/StructDeserializer given to the visitor
    alog,     \* access session: the visitor's calls so far, with what each returned
    apc,      \* access session: position of the session
    ckind,    \* container session: the container serializer (seq, map or struct)
    cself,    \* container session: the serializer's buffers
    ccalls,   \* container session: the calls made so far, with how each ended
    cout      \* container session: what end() returned

vars ==
    <<src, value, target, dec, pc, sfields, scalls, sout, vvalue, vschema, vresult, vpc,
      rschema, record, rputs, rpc, ainput, akind, access, alog, apc,
      ckind, cself, ccalls, cout>>
codecVars == <<src, value, target, dec, pc>>
serVars == <<sfields, scalls, sout>>
valVars == <<vvalue, vschema, vresult, vpc>>
recVars == <<rschema, record, rputs, rpc>>
accVars == <<ainput, akind, access, alog, apc>>
conVars == <<ckind, cself, ccalls, cout>>

(***************************************************************************)
(* Bounds of the model.                                                    *)
(***************************************************************************)
\* longest array / field list / symbol list / union variant list drawn as input
MaxLen == 2
\* number of serialize_field calls in one struct serializer session
MaxCalls == 3
\* number of calls made in one access session or container session: two
\* entries, key and value each, and one more
MaxSteps == 5

(***************************************************************************)
(* Integers.  The widths of the program's integer types exceed the range   *)
(* of the model checker's integers, so an integer is written in base 2^16: *)
(* <<top, w2, w1, w0>> stands for top*2^48 + w2*2^32 + w1*2^16 + w0, with  *)
(* top signed and the lower limbs in 0..2^16-1.  The numeric order is the  *)
(* lexicographic order of the limbs.                                       *)
(***************************************************************************)
Limb == 2^16
LimbMax == Limb - 1

NumLE(a, b) ==
    \/ a[1] < b[1]
    \/ a[1] = b[1] /\ a[2] < b[2]
    \/ a[1] = b[1] /\ a[2] = b[2] /\ a[3] < b[3]
    \/ a[1] = b[1] /\ a[2] = b[2] /\ a[3] = b[3] /\ a[4] <= b[4]

\* a small magnitude written in limbs
Small(n) == IF n >= 0 THEN <<0, 0, 0, n>> ELSE <<-1, LimbMax, LimbMax, Limb + n>>

ZeroNum == Small(0)
I8_MIN == Small(-128)
I8_MAX == Small(127)
U8_MAX == Small(255)
I16_MIN == Small(-32768)
I16_MAX == Small(32767)
U16_MAX == Small(LimbMax)
I32_MIN == <<-1, LimbMax, 2^15, 0>>
I32_MAX == <<0, 0, 2^15 - 1, LimbMax>>
U32_MAX == <<0, 0, LimbMax, LimbMax>>
I64_MIN == <<-(2^15), 0, 0, 0>>
I64_MAX == <<2^15 - 1, LimbMax, LimbMax, LimbMax>>
U64_MAX == <<LimbMax, LimbMax, LimbMax, LimbMax>>

IntKinds == {"i8", "i16", "i32", "i64", "u8", "u16", "u32", "u64"}
FloatKinds == {"f32", "f64"}

MinOf(k) ==
    CASE k = "i8" -> I8_MIN
      [] k = "i16" -> I16_MIN
      [] k = "i32" -> I32_MIN
      [] k = "i64" -> I64_MIN
      [] OTHER -> ZeroNum

MaxOf(k) ==
    CASE k = "i8" -> I8_MAX
      [] k = "i16" -> I16_MAX
      [] k = "i32" -> I32_MAX
      [] k = "i64" -> I64_MAX
      [] k = "u8" -> U8_MAX
      [] k = "u16" -> U16_MAX
      [] k = "u32" -> U32_MAX
      [] OTHER -> U64_MAX

(***************************************************************************)
(* Value (src/types.rs).                                                   *)
(***************************************************************************)
VNull == [t |-> "Null"]
VBoolean(b) == [t |-> "Boolean", b |-> b]
VInt(n) == [t |-> "Int", n |-> n]
VLong(n) == [t |-> "Long", n |-> n]
VFloat(x) == [t |-> "Float", x |-> x]
VDouble(x) == [t |-> "Double", x |-> x]
VBytes(bs) == [t |-> "Bytes", bytes |-> bs]
VString(s) == [t |-> "String", s |-> s]
VFixed(n, bs) == [t |-> "Fixed", size |-> n, bytes |-> bs]
VEnum(i, s) == [t |-> "Enum", i |-> i, s |-> s]
VUnion(i, v) == [t |-> "Union", i |-> i, v |-> v]
VArray(items) == [t |-> "Array", items |-> items]
VMap(m) == [t |-> "Map", m |-> m]
VRecord(fields) == [t |-> "Record", fields |-> fields]

\* Result<Value, Error> of the encode bridge
Ok(v) == [ok |-> TRUE, v |-> v]
Err == [ok |-> FALSE]

(***************************************************************************)
(* Source objects: instances of the serde data model that the caller's     *)
(* Serialize implementation walks.  A datum is tagged by its shape k.      *)
(***************************************************************************)
DBool(b) == [k |-> "bool", b |-> b]
DNum(kind, n) == [k |-> kind, n |-> n]
DFloat(kind, x) == [k |-> kind, x |-> x]
DChar(c) == [k |-> "char", s |-> c]
DString(s) == [k |-> "string", s |-> s]
DUnit == [k |-> "unit"]
DNone == [k |-> "none"]
DSome(d) == [k |-> "some", v |-> d]
DSeq(items) == [k |-> "seq", items |-> items]
DMap(m) == [k |-> "map", m |-> m]
DStruct(fields) == [k |-> "struct", fields |-> fields]
DEnum(idx, kind, p) == [k |-> "enum", idx |-> idx, kind |-> kind, p |-> p]

(***************************************************************************)
(* Encode bridge (src/ser.rs).                                             *)
(***************************************************************************)
RECURSIVE to_value(_)

serialize_bool(v) == Ok(VBoolean(v))

serialize_i32(v) == Ok(VInt(v))

serialize_i64(v) == Ok(VLong(v))

\* i32::from(v): the same number in a wider type
serialize_i8(v) == serialize_i32(v)

serialize_i16(v) == serialize_i32(v)

serialize_u8(v) == serialize_i32(v)

serialize_u16(v) == serialize_i32(v)

\* mutant: a 32-bit unsigned is never widened
serialize_u32_NoWiden(v) == serialize_i32(v)

serialize_u32(v) ==
    IF NumLE(v, I32_MAX) THEN serialize_i32(v) ELSE serialize_i64(v)

\* mutant: the bound compared with < instead of <=
serialize_u64_StrictLess(v) ==
    IF NumLE(v, I64_MAX) /\ v # I64_MAX THEN serialize_i64(v) ELSE Err

serialize_u64(v) ==
    IF NumLE(v, I64_MAX) THEN serialize_i64(v) ELSE Err

serialize_f32(v) == Ok(VFloat(v))

serialize_f64(v) == Ok(VDouble(v))

serialize_str(v) == Ok(VString(v))

\* once(v).collect::<String>(): the one-character string
serialize_char(v) == serialize_str(v)

serialize_unit == Ok(VNull)

\* impl ToAvro for Option<T> (src/types.rs)
Option_avro(some, v) == IF some THEN VUnion(1, v) ELSE VUnion(0, VNull)

serialize_none == Ok(Option_avro(FALSE, VNull))

serialize_some(d) ==
    LET r == to_value(d)
    IN IF r.ok THEN Ok(Option_avro(TRUE, r.v)) ELSE Err

serialize_unit_variant(index) == Ok(VUnion(index, VNull))

serialize_newtype_struct(d) == to_value(d)

serialize_newtype_variant(index, d) ==
    LET r == serialize_newtype_struct(d)
    IN IF r.ok THEN Ok(VUnion(index, r.v)) ELSE Err

\* Result<(), Error> of a container step, with the container as it is left
Step(ok, self) == [ok |-> ok, self |-> self]

SeqSerializer_new == [items |-> <<>>]

\* mutant: a failed element leaves a Null in its place
SeqSerializer_serialize_element_PushNull(self, d) ==
    LET r == to_value(d)
    IN IF r.ok THEN Step(TRUE, [items |-> Append(self.items, r.v)])
       ELSE Step(FALSE, [items |-> Append(self.items, VNull)])

SeqSerializer_serialize_element(self, d) ==
    LET r == to_value(d)
    IN IF r.ok THEN Step(TRUE, [items |-> Append(self.items, r.v)])
       ELSE Step(FALSE, self)

SeqSerializer_end(self) == Ok(VArray(self.items))

VariantSeqSerializer_new(index) == [variant_index |-> index, items |-> <<>>]

VariantSeqSerializer_serialize_field(self, d) ==
    LET r == to_value(d)
    IN IF r.ok THEN Step(TRUE, [self EXCEPT !.items = Append(@, r.v)])
       ELSE Step(FALSE, self)

\* mutant: the buffered values are returned without the variant's ordinal
VariantSeqSerializer_end_Bare(self) == Ok(VArray(self.items))

VariantSeqSerializer_end(self) == Ok(VUnion(self.variant_index, VArray(self.items)))

MapSerializer_new == [indices |-> <<>>, values |-> <<>>]

\* HashMap::insert: bind key, replacing an earlier binding
HashMap_insert(m, key, v) ==
    [x \in (DOMAIN m) \cup {key} |-> IF x = key THEN v ELSE m[x]]

\* mutant: a key that is not a String is skipped instead of refused
MapSerializer_serialize_key_Lenient(self, d) ==
    LET r == to_value(d)
    IN IF ~r.ok THEN Step(FALSE, self)
       ELSE IF r.v.t = "String"
            THEN Step(TRUE, [self EXCEPT !.indices = HashMap_insert(@, r.v.s, Len(self.values))])
            ELSE Step(TRUE, self)

MapSerializer_serialize_key(self, d) ==
    LET r == to_value(d)
    IN IF ~r.ok THEN Step(FALSE, self)
       ELSE IF r.v.t = "String"
            THEN Step(TRUE, [self EXCEPT !.indices = HashMap_insert(@, r.v.s, Len(self.values))])
            ELSE Step(FALSE, self)

MapSerializer_serialize_value(self, d) ==
    LET r == to_value(d)
    IN IF r.ok THEN Step(TRUE, [self EXCEPT !.values = Append(@, r.v)])
       ELSE Step(FALSE, self)

\* mutant: a key whose value is missing is kept, bound to Null
MapSerializer_end_NullFill(self) ==
    Ok(VMap([key \in DOMAIN self.indices |->
                IF self.indices[key] < Len(self.values)
                THEN self.values[self.indices[key] + 1] ELSE VNull]))

\* indices hold 0-based positions into values
MapSerializer_end(self) ==
    Ok(VMap([key \in {x \in DOMAIN self.indices : self.indices[x] < Len(self.values)}
              |-> self.values[self.indices[key] + 1]]))

StructSerializer_new == <<>>

\* mutant: the new field is put in front of the buffered ones
StructSerializer_serialize_field_Prepend(fields, name, d) ==
    LET r == to_value(d)
    IN IF r.ok THEN Step(TRUE, <<<<name, r.v>>>> \o fields)
       ELSE Step(FALSE, fields)

StructSerializer_serialize_field(fields, name, d) ==
    LET r == to_value(d)
    IN IF r.ok THEN Step(TRUE, Append(fields, <<name, r.v>>))
       ELSE Step(FALSE, fields)

StructSerializer_end(fields) == Ok(VRecord(fields))

VariantStructSerializer_new(index) == [variant_index |-> index, fields |-> <<>>]

VariantStructSerializer_serialize_field(self, name, d) ==
    LET r == to_value(d)
    IN IF r.ok THEN Step(TRUE, [self EXCEPT !.fields = Append(@, <<name, r.v>>)])
       ELSE Step(FALSE, self)

VariantStructSerializer_end(self) ==
    Ok(VUnion(self.variant_index, VRecord(self.fields)))

(***************************************************************************)
(* The caller's Serialize implementation driving the bridge: a sequence    *)
(* calls serialize_element once per element, a map serialize_key then      *)
(* serialize_value once per entry, a struct serialize_field once per field *)
(* in declaration order; each stops at the first error (the ? operator).   *)
(***************************************************************************)
RECURSIVE DriveSeq(_, _, _)
DriveSeq(self, items, i) ==
    IF i > Len(items) THEN Step(TRUE, self)
    ELSE LET s == SeqSerializer_serialize_element(self, items[i])
         IN IF s.ok THEN DriveSeq(s.self, items, i + 1) ELSE s

RECURSIVE DriveVariantSeq(_, _, _)
DriveVariantSeq(self, items, i) ==
    IF i > Len(items) THEN Step(TRUE, self)
    ELSE LET s == VariantSeqSerializer_serialize_field(self, items[i])
         IN IF s.ok THEN DriveVariantSeq(s.self, items, i + 1) ELSE s

RECURSIVE DriveStruct(_, _, _)
DriveStruct(fields, dfields, i) ==
    IF i > Len(dfields) THEN Step(TRUE, fields)
    ELSE LET s == StructSerializer_serialize_field(fields, dfields[i][1], dfields[i][2])
         IN IF s.ok THEN DriveStruct(s.self, dfields, i + 1) ELSE s

RECURSIVE DriveVariantStruct(_, _, _)
DriveVariantStruct(self, dfields, i) ==
    IF i > Len(dfields) THEN Step(TRUE, self)
    ELSE LET s == VariantStructSerializer_serialize_field(self, dfields[i][1], dfields[i][2])
         IN IF s.ok THEN DriveVariantStruct(s.self, dfields, i + 1) ELSE s

\* the entries of a HashMap in one iteration order
RECURSIVE DriveMap(_, _, _)
DriveMap(self, m, keys) ==
    IF keys = {} THEN Step(TRUE, self)
    ELSE LET key == CHOOSE x \in keys : TRUE
             sk == MapSerializer_serialize_key(self, key)
             sv == MapSerializer_serialize_value(sk.self, m[key])
         IN IF ~sk.ok THEN sk
            ELSE IF ~sv.ok THEN sv
            ELSE DriveMap(sv.self, m, keys \ {key})

serialize_seq(items) ==
    LET s == DriveSeq(SeqSerializer_new, items, 1)
    IN IF s.ok THEN SeqSerializer_end(s.self) ELSE Err

serialize_tuple_variant(index, items) ==
    LET s == DriveVariantSeq(VariantSeqSerializer_new(index), items, 1)
    IN IF s.ok THEN VariantSeqSerializer_end(s.self) ELSE Err

serialize_map(m) ==
    LET s == DriveMap(MapSerializer_new, m, DOMAIN m)
    IN IF s.ok THEN MapSerializer_end(s.self) ELSE Err

serialize_struct(dfields) ==
    LET s == DriveStruct(StructSerializer_new, dfields, 1)
    IN IF s.ok THEN StructSerializer_end(s.self) ELSE Err

serialize_struct_variant(index, dfields) ==
    LET s == DriveVariantStruct(VariantStructSerializer_new(index), dfields, 1)
    IN IF s.ok THEN VariantStructSerializer_end(s.self) ELSE Err

serialize_variant(d) ==
    CASE d.kind = "unit" -> serialize_unit_variant(d.idx)
      [] d.kind = "newtype" -> serialize_newtype_variant(d.idx, d.p)
      [] d.kind = "tuple" -> serialize_tuple_variant(d.idx, d.p)
      [] OTHER -> serialize_struct_variant(d.idx, d.p)

to_value(d) ==
    CASE d.k = "bool" -> serialize_bool(d.b)
      [] d.k = "i8" -> serialize_i8(d.n)
      [] d.k = "i16" -> serialize_i16(d.n)
      [] d.k = "i32" -> serialize_i32(d.n)
      [] d.k = "i64" -> serialize_i64(d.n)
      [] d.k = "u8" -> serialize_u8(d.n)
      [] d.k = "u16" -> serialize_u16(d.n)
      [] d.k = "u32" -> serialize_u32(d.n)
      [] d.k = "u64" -> serialize_u64(d.n)
      [] d.k = "f32" -> serialize_f32(d.x)
      [] d.k = "f64" -> serialize_f64(d.x)
      [] d.k = "char" -> serialize_char(d.s)
      [] d.k = "string" -> serialize_str(d.s)
      [] d.k = "unit" -> serialize_unit
      [] d.k = "none" -> serialize_none
      [] d.k = "some" -> serialize_some(d.v)
      [] d.k = "seq" -> serialize_seq(d.items)
      [] d.k = "map" -> serialize_map(d.m)
      [] d.k = "struct" -> serialize_struct(d.fields)
      [] OTHER -> serialize_variant(d)

(***************************************************************************)
(* Decode bridge (src/de.rs).  The caller names the shape it wants by a    *)
(* type descriptor; the bridge answers with visitor calls.                 *)
(***************************************************************************)
TPrim(k) == [k |-> k]
TOption(T) == [k |-> "option", of |-> T]
TSeq(T) == [k |-> "seq", of |-> T]
TMap(K, T) == [k |-> "map", key |-> K, of |-> T]
TStruct(fields) == [k |-> "struct", fields |-> fields]
TEnum(variants) == [k |-> "enum", variants |-> variants]
TVariant(name, kind, of) == [name |-> name, kind |-> kind, of |-> of]
TIgnored == [k |-> "ignored"]
TAny == [k |-> "any"]
\* a request for the primitive type k by a visitor that takes every visit call
TRequest(k) == [k |-> "request", of |-> k]

\* Result<T, Error> of the decode bridge; an abort is a panic, not a result
DOk(d) == [r |-> "ok", v |-> d]
DErr == [r |-> "err"]
DAbort == [r |-> "abort"]
DEnd == [r |-> "end"]

\* mutant: a String is handed to the visitor as well
deserialize_any_Strings(input) ==
    CASE input.t = "Null" -> [visit |-> "unit"]
      [] input.t = "Boolean" -> [visit |-> "bool", b |-> input.b]
      [] input.t = "Int" -> [visit |-> "i32", n |-> input.n]
      [] input.t = "Long" -> [visit |-> "i64", n |-> input.n]
      [] input.t = "Float" -> [visit |-> "f32", x |-> input.x]
      [] input.t = "Double" -> [visit |-> "f64", x |-> input.x]
      [] input.t = "String" -> [visit |-> "str", s |-> input.s]
      [] OTHER -> [visit |-> "error"]

\* the visitor call deserialize_any makes, or the error it returns
deserialize_any(input) ==
    CASE input.t = "Null" -> [visit |-> "unit"]
      [] input.t = "Boolean" -> [visit |-> "bool", b |-> input.b]
      [] input.t = "Int" -> [visit |-> "i32", n |-> input.n]
      [] input.t = "Long" -> [visit |-> "i64", n |-> input.n]
      [] input.t = "Float" -> [visit |-> "f32", x |-> input.x]
      [] input.t = "Double" -> [visit |-> "f64", x |-> input.x]
      [] OTHER -> [visit |-> "error"]

\* mutant: an Int is offered widened to 64 bits
deserialize_number_Widen(input) ==
    IF input.t = "Int" THEN [visit |-> "i64", n |-> input.n] ELSE deserialize_any(input)

\* forward_to_deserialize_any! { bool i8 i16 i32 i64 u8 u16 u32 u64 f32 f64 }
deserialize_number(input) == deserialize_any(input)

\* The visitors of the caller's primitive types: an integer type takes an
\* integer of any width that is in its range, a float type takes a float or
\* an integer (converted), bool takes a bool.
PrimVisitor(k, ev) ==
    CASE ev.visit = "error" -> DErr
      [] k = "bool" -> IF ev.visit = "bool" THEN DOk(DBool(ev.b)) ELSE DErr
      [] k \in IntKinds ->
            IF ev.visit \in {"i32", "i64"} /\ NumLE(MinOf(k), ev.n) /\ NumLE(ev.n, MaxOf(k))
            THEN DOk(DNum(k, ev.n)) ELSE DErr
      [] k \in FloatKinds ->
            IF ev.visit \in {"f32", "f64"} THEN DOk(DFloat(k, ev.x))
            ELSE IF ev.visit \in {"i32", "i64"} THEN DOk(DFloat(k, [int |-> ev.n]))
            ELSE DErr
      [] OTHER -> DErr

\* A visitor that takes every visit call and keeps what it was handed (the
\* caller of an 'any' request is a self-describing type)
AnyVisitor(ev) == IF ev.visit = "error" THEN DErr ELSE DOk(ev)

deserialize_char(input) == DErr

\* from_utf8 over the bytes drawn as input: a byte below 128 is one character
Utf8Char(b) == CASE b = 97 -> "a" [] b = 98 -> "b" [] OTHER -> "?"

RECURSIVE from_utf8(_)
from_utf8(bytes) ==
    IF bytes = <<>> THEN [ok |-> TRUE, s |-> ""]
    ELSE LET rest == from_utf8(Tail(bytes))
         IN IF Head(bytes) >= 128 \/ ~rest.ok THEN [ok |-> FALSE, s |-> ""]
            ELSE [ok |-> TRUE, s |-> Utf8Char(Head(bytes)) \o rest.s]

deserialize_string(input) ==
    CASE input.t = "String" -> DOk(DString(input.s))
      [] input.t \in {"Bytes", "Fixed"} ->
            LET u == from_utf8(input.bytes)
            IN IF u.ok THEN DOk(DString(u.s)) ELSE DErr
      [] OTHER -> DErr

deserialize_unit(input) == IF input.t = "Null" THEN DOk(DUnit) ELSE DErr

\* IntoDeserializer for (): visit_unit, whatever the input is
deserialize_ignored_any(input) == DOk(DUnit)

RECURSIVE from_value(_, _)

\* mutant: index 0 is taken for absent whatever its payload
deserialize_option_AnyPayload(input, T) ==
    IF input.t = "Union" /\ input.i = 0 THEN DOk(DNone)
    ELSE IF input.t = "Union" /\ input.i = 1
         THEN LET r == from_value(input.v, T)
              IN IF r.r = "ok" THEN DOk(DSome(r.v)) ELSE r
         ELSE DErr

deserialize_option(input, T) ==
    IF input.t = "Union" /\ input.i = 0 /\ input.v = VNull THEN DOk(DNone)
    ELSE IF input.t = "Union" /\ input.i = 1
         THEN LET r == from_value(input.v, T)
              IN IF r.r = "ok" THEN DOk(DSome(r.v)) ELSE r
         ELSE DErr

SeqDeserializer_new(items) == [input |-> items]

\* mutant: running past the last element is an error
SeqDeserializer_next_element_seed_EndErr(self, T) ==
    IF self.input = <<>> THEN [self |-> self, res |-> DErr]
    ELSE [self |-> [input |-> Tail(self.input)], res |-> from_value(Head(self.input), T)]

\* Iter::next, then the seed on the item
SeqDeserializer_next_element_seed(self, T) ==
    IF self.input = <<>> THEN [self |-> self, res |-> DEnd]
    ELSE [self |-> [input |-> Tail(self.input)], res |-> from_value(Head(self.input), T)]

\* the visitor of Vec<T>: next_element until the end signal
RECURSIVE VisitSeq(_, _, _)
VisitSeq(self, T, acc) ==
    LET e == SeqDeserializer_next_element_seed(self, T)
    IN CASE e.res.r = "end" -> DOk(acc)
         [] e.res.r = "ok" -> VisitSeq(e.self, T, Append(acc, e.res.v))
         [] OTHER -> e.res

\* the visitor of a positional-fields variant: one next_element per declared
\* position, an early end signal being an invalid-length error
RECURSIVE VisitTuple(_, _, _, _)
VisitTuple(self, Ts, i, acc) ==
    IF i > Len(Ts) THEN DOk(acc)
    ELSE LET e == SeqDeserializer_next_element_seed(self, Ts[i])
         IN CASE e.res.r = "end" -> DErr
              [] e.res.r = "ok" -> VisitTuple(e.self, Ts, i + 1, Append(acc, e.res.v))
              [] OTHER -> e.res

deserialize_seq(input, T) ==
    IF input.t = "Array"
    THEN LET r == VisitSeq(SeqDeserializer_new(input.items), T, <<>>)
         IN IF r.r = "ok" THEN DOk(DSeq(r.v)) ELSE r
    ELSE DErr

\* Option<&Value>
None == [some |-> FALSE]
Some(v) == [some |-> TRUE, v |-> v]

\* the order in which a HashMap's iterators walk its keys
RECURSIVE HashOrder(_)
HashOrder(keys) ==
    IF keys = {} THEN <<>>
    ELSE LET key == CHOOSE x \in keys : TRUE
         IN <<key>> \o HashOrder(keys \ {key})

RECURSIVE MapSeq(_, _)
MapSeq(m, ks) == IF ks = <<>> THEN <<>> ELSE <<m[Head(ks)]>> \o MapSeq(m, Tail(ks))

\* mutant: the values are walked in the opposite order to the keys
MapDeserializer_new_Reversed(m) ==
    LET ks == HashOrder(DOMAIN m)
    IN [input_keys |-> ks,
        input_values |-> [j \in DOMAIN ks |-> m[ks[Len(ks) + 1 - j]]]]

\* input.keys() and input.values(): two iterators over the same map
MapDeserializer_new(m) ==
    [input_keys |-> HashOrder(DOMAIN m), input_values |-> MapSeq(m, HashOrder(DOMAIN m))]

\* StringDeserializer answers every request with visit_string; the caller's key
\* type takes it when it is a string type (char keys are not drawn here)
StringDeserializer(K, s) ==
    CASE K.k = "string" -> DOk(DString(s))
      [] K.k = "ignored" -> DOk(DUnit)
      [] OTHER -> DErr

MapDeserializer_next_key_seed(self, K) ==
    IF self.input_keys = <<>> THEN [self |-> self, res |-> DEnd]
    ELSE [self |-> [self EXCEPT !.input_keys = Tail(@)],
          res |-> StringDeserializer(K, Head(self.input_keys))]

MapDeserializer_next_value_seed(self, T) ==
    IF self.input_values = <<>> THEN [self |-> self, res |-> DErr]
    ELSE [self |-> [self EXCEPT !.input_values = Tail(@)],
          res |-> from_value(Head(self.input_values), T)]

\* the visitor of HashMap<K, T>: next_key then next_value until the end signal
RECURSIVE VisitMap(_, _, _, _)
VisitMap(self, K, T, acc) ==
    LET key == MapDeserializer_next_key_seed(self, K)
        val == MapDeserializer_next_value_seed(key.self, T)
    IN CASE key.res.r = "end" -> DOk(acc)
         [] key.res.r # "ok" -> key.res
         [] val.res.r # "ok" -> val.res
         [] OTHER -> VisitMap(val.self, K, T, HashMap_insert(acc, key.res.v, val.res.v))

deserialize_map(input, K, T) ==
    IF input.t = "Map"
    THEN LET r == VisitMap(MapDeserializer_new(input.m), K, T, <<>>)
         IN IF r.r = "ok" THEN DOk(DMap(r.v)) ELSE r
    ELSE DErr

StructDeserializer_new(fields) == [input |-> fields, value |-> None]

\* mutant: the first of every two fields is skipped
StructDeserializer_next_key_seed_Skip(self) ==
    IF Len(self.input) <= 1 THEN [self |-> self, res |-> DEnd]
    ELSE [self |-> [input |-> Tail(Tail(self.input)), value |-> Some(self.input[2][2])],
          res |-> DOk(self.input[2][1])]

\* BorrowedStringDeserializer offers the field name as visit_str
StructDeserializer_next_key_seed(self) ==
    IF self.input = <<>> THEN [self |-> self, res |-> DEnd]
    ELSE [self |-> [input |-> Tail(self.input), value |-> Some(Head(self.input)[2])],
          res |-> DOk(Head(self.input)[1])]

\* mutant: the value is read without being taken
StructDeserializer_next_value_seed_NoTake(self, T) ==
    IF self.value.some
    THEN [self |-> self, res |-> from_value(self.value.v, T)]
    ELSE [self |-> self, res |-> DErr]

\* self.value.take()
StructDeserializer_next_value_seed(self, T) ==
    IF self.value.some
    THEN [self |-> [self EXCEPT !.value = None], res |-> from_value(self.value.v, T)]
    ELSE [self |-> self, res |-> DErr]

FieldNames(decl) == {decl[j][1] : j \in DOMAIN decl}
FieldType(decl, name) == decl[CHOOSE j \in DOMAIN decl : decl[j][1] = name][2]

\* after the last key: every declared field is set, or is an Option left absent
MissingOk(decl, acc) ==
    \A j \in DOMAIN decl : decl[j][1] \in DOMAIN acc \/ decl[j][2].k = "option"

Collected(decl, acc) ==
    [j \in DOMAIN decl |->
        <<decl[j][1], IF decl[j][1] \in DOMAIN acc THEN acc[decl[j][1]] ELSE DNone>>]

\* the visitor of a struct with declared fields decl: a known name takes the next
\* value into its field (twice is an error), an unknown name has its value ignored
RECURSIVE VisitStruct(_, _, _)
VisitStruct(self, decl, acc) ==
    LET key == StructDeserializer_next_key_seed(self)
        known == key.res.v \in FieldNames(decl)
        val == StructDeserializer_next_value_seed(
                   key.self, IF known THEN FieldType(decl, key.res.v) ELSE TIgnored)
    IN CASE key.res.r = "end" ->
                IF MissingOk(decl, acc) THEN DOk(Collected(decl, acc)) ELSE DErr
         [] known /\ key.res.v \in DOMAIN acc -> DErr
         [] val.res.r # "ok" -> val.res
         [] known -> VisitStruct(val.self, decl, HashMap_insert(acc, key.res.v, val.res.v))
         [] OTHER -> VisitStruct(val.self, decl, acc)

deserialize_struct(input, decl) ==
    IF input.t = "Record"
    THEN LET r == VisitStruct(StructDeserializer_new(input.fields), decl, <<>>)
         IN IF r.r = "ok" THEN DOk(DStruct(r.v)) ELSE r
    ELSE DErr

EnumDeserializer_new(variant_name, variant_value) ==
    [variant_name |-> variant_name, variant_value |-> variant_value]

\* mutant: a unit variant takes only a Null payload
EnumDeserializer_unit_variant_NullOnly(self) ==
    IF self.variant_value = VNull THEN DOk(DUnit) ELSE DErr

EnumDeserializer_unit_variant(self) == DOk(DUnit)

\* unreachable!()
EnumDeserializer_newtype_variant_seed(self, T) == DAbort

EnumDeserializer_tuple_variant(self, Ts) ==
    IF self.variant_value.t = "Array"
    THEN VisitTuple(SeqDeserializer_new(self.variant_value.items), Ts, 1, <<>>)
    ELSE DErr

EnumDeserializer_struct_variant(self, decl) ==
    IF self.variant_value.t = "Record"
    THEN VisitStruct(StructDeserializer_new(self.variant_value.fields), decl, <<>>)
    ELSE DErr

\* the visitor of an enum: the variant is identified by the name offered
\* (deserialize_identifier), then its payload is asked for by the variant's kind
VisitEnum(self, variants) ==
    LET idx == CHOOSE j \in DOMAIN variants : variants[j].name = self.variant_name
        v == variants[idx]
        p == CASE v.kind = "unit" -> EnumDeserializer_unit_variant(self)
               [] v.kind = "newtype" -> EnumDeserializer_newtype_variant_seed(self, v.of)
               [] v.kind = "tuple" -> EnumDeserializer_tuple_variant(self, v.of)
               [] OTHER -> EnumDeserializer_struct_variant(self, v.of)
    IN IF p.r = "ok" THEN DOk(DEnum(idx - 1, v.kind, p.v)) ELSE p

\* variants[*variant_index] panics when the index is out of bounds
deserialize_enum(input, variants) ==
    IF input.t = "Union"
    THEN IF input.i >= Len(variants) THEN DAbort
         ELSE VisitEnum(EnumDeserializer_new(variants[input.i + 1].name, input.v), variants)
    ELSE DErr

\* D::deserialize(&mut de): the caller's type asks for its own shape
from_value(input, T) ==
    CASE T.k = "bool" \/ T.k \in IntKinds \/ T.k \in FloatKinds ->
            PrimVisitor(T.k, deserialize_number(input))
      [] T.k = "any" -> AnyVisitor(deserialize_any(input))
      [] T.k = "request" -> AnyVisitor(deserialize_number(input))
      [] T.k = "char" -> deserialize_char(input)
      [] T.k = "string" -> deserialize_string(input)
      [] T.k = "unit" -> deserialize_unit(input)
      [] T.k = "ignored" -> deserialize_ignored_any(input)
      [] T.k = "option" -> deserialize_option(input, T.of)
      [] T.k = "seq" -> deserialize_seq(input, T.of)
      [] T.k = "map" -> deserialize_map(input, T.key, T.of)
      [] T.k = "struct" -> deserialize_struct(input, T.fields)
      [] OTHER -> deserialize_enum(input, T.variants)

(***************************************************************************)
(* Schema, as the validator consults it, and Value::validate               *)
(* (src/types.rs).                                                         *)
(***************************************************************************)
SPrim(t) == [t |-> t]
SFixed(size) == [t |-> "Fixed", size |-> size]
SEnum(symbols) == [t |-> "Enum", symbols |-> symbols]
SUnion(schemas) == [t |-> "Union", schemas |-> schemas]
SArray(inner) == [t |-> "Array", inner |-> inner]
SMap(inner) == [t |-> "Map", inner |-> inner]
SRecord(fields) == [t |-> "Record", fields |-> fields]
RecordField(name, schema) == [name |-> name, schema |-> schema]

PrimTags == {"Null", "Boolean", "Int", "Long", "Float", "Double", "Bytes", "String"}

\* UnionSchema::variant_schema: the variant at a 0-based index, if there is one
variant_schema(schemas, i) ==
    IF i >= 0 /\ i < Len(schemas) THEN Some(schemas[i + 1]) ELSE None

\* symbols.get(i as usize): a negative i32 becomes an index beyond any list
symbols_get(symbols, i) ==
    IF i >= 0 /\ i < Len(symbols) THEN Some(symbols[i + 1]) ELSE None

symbols_contains(symbols, s) == \E j \in DOMAIN symbols : symbols[j] = s

RECURSIVE validate(_, _)

\* mutant: the payload's length is compared instead of the size carried
validate_fixed_ByLen(v, schema) == Len(v.bytes) = schema.size

validate_fixed(v, schema) == v.size = schema.size

\* mutant: the symbol is looked up in the list, the index ignored
validate_enum_BySymbol(v, schema) == symbols_contains(schema.symbols, v.s)

\* mutant: the index is taken as 1-based
validate_enum_OneBased(v, schema) ==
    LET symbol == symbols_get(schema.symbols, v.i - 1)
    IN IF symbol.some THEN symbol.v = v.s ELSE FALSE

validate_enum(v, schema) ==
    LET symbol == symbols_get(schema.symbols, v.i)
    IN IF symbol.some THEN symbol.v = v.s ELSE FALSE

\* mutant: an index without a variant is accepted
validate_union_Lenient(v, schema) ==
    LET variant == variant_schema(schema.schemas, v.i)
    IN IF variant.some THEN validate(v.v, variant.v) ELSE TRUE

validate_union(v, schema) ==
    LET variant == variant_schema(schema.schemas, v.i)
    IN IF variant.some THEN validate(v.v, variant.v) ELSE FALSE

validate_array(v, schema) ==
    \A j \in DOMAIN v.items : validate(v.items[j], schema.inner)

validate_map(v, schema) ==
    \A key \in DOMAIN v.m : validate(v.m[key], schema.inner)

\* mutant: the names are not compared
validate_record_NoNames(v, schema) ==
    /\ Len(schema.fields) = Len(v.fields)
    /\ \A j \in DOMAIN schema.fields :
          validate(v.fields[j][2], schema.fields[j].schema)

\* zip stops at the shorter list; the lengths are compared first
validate_record(v, schema) ==
    /\ Len(schema.fields) = Len(v.fields)
    /\ \A j \in DOMAIN schema.fields :
          /\ schema.fields[j].name = v.fields[j][1]
          /\ validate(v.fields[j][2], schema.fields[j].schema)

\* mutant: an Int is promoted to a Long schema
validate_Promote(v, schema) ==
    CASE v.t \in PrimTags /\ schema.t = v.t -> TRUE
      [] v.t = "Int" /\ schema.t = "Long" -> TRUE
      [] v.t = "Fixed" /\ schema.t = "Fixed" -> validate_fixed(v, schema)
      [] v.t = "String" /\ schema.t = "Enum" -> symbols_contains(schema.symbols, v.s)
      [] v.t = "Enum" /\ schema.t = "Enum" -> validate_enum(v, schema)
      [] v.t = "Union" /\ schema.t = "Union" -> validate_union(v, schema)
      [] v.t = "Array" /\ schema.t = "Array" -> validate_array(v, schema)
      [] v.t = "Map" /\ schema.t = "Map" -> validate_map(v, schema)
      [] v.t = "Record" /\ schema.t = "Record" -> validate_record(v, schema)
      [] OTHER -> FALSE

validate(v, schema) ==
    CASE v.t \in PrimTags /\ schema.t = v.t -> TRUE
      [] v.t = "Fixed" /\ schema.t = "Fixed" -> validate_fixed(v, schema)
      [] v.t = "String" /\ schema.t = "Enum" -> symbols_contains(schema.symbols, v.s)
      [] v.t = "Enum" /\ schema.t = "Enum" -> validate_enum(v, schema)
      [] v.t = "Union" /\ schema.t = "Union" -> validate_union(v, schema)
      [] v.t = "Array" /\ schema.t = "Array" -> validate_array(v, schema)
      [] v.t = "Map" /\ schema.t = "Map" -> validate_map(v, schema)
      [] v.t = "Record" /\ schema.t = "Record" -> validate_record(v, schema)
      [] OTHER -> FALSE

(***************************************************************************)
(* Record, the builder of Value::Record (src/types.rs).                    *)
(***************************************************************************)
\* Schema::Record { fields, lookup, .. }
SRecordLookup(fields, lookup) == [t |-> "Record", fields |-> fields, lookup |-> lookup]

\* impl ToAvro for bool, i32, i64, String, &str, (), Option<T>
RECURSIVE avro(_)
avro(d) ==
    CASE d.k = "bool" -> VBoolean(d.b)
      [] d.k = "i32" -> VInt(d.n)
      [] d.k = "i64" -> VLong(d.n)
      [] d.k = "string" -> VString(d.s)
      [] d.k = "unit" -> VNull
      [] d.k = "none" -> Option_avro(FALSE, VNull)
      [] OTHER -> Option_avro(TRUE, avro(d.v))

Record_new(schema) ==
    IF schema.t = "Record"
    THEN Some([fields |-> [j \in DOMAIN schema.fields |-> <<schema.fields[j].name, VNull>>],
               schema_lookup |-> schema.lookup])
    ELSE None

\* mutant: a name the lookup does not hold is appended as a new field
Record_put_Append(self, field, v) ==
    IF field \in DOMAIN self.schema_lookup
    THEN [self EXCEPT !.fields[self.schema_lookup[field] + 1][2] = avro(v)]
    ELSE [self EXCEPT !.fields = Append(@, <<field, avro(v)>>)]

\* mutant: the value is stored at every entry that carries the name
Record_put_ByName(self, field, v) ==
    [self EXCEPT !.fields =
        [j \in DOMAIN @ |-> IF @[j][1] = field THEN <<field, avro(v)>> ELSE @[j]]]

\* self.fields[position] panics when the position is out of bounds; the
\* caller of this operator tests for it
Record_put(self, field, v) ==
    IF field \in DOMAIN self.schema_lookup
    THEN [self EXCEPT !.fields[self.schema_lookup[field] + 1][2] = avro(v)]
    ELSE self

(***************************************************************************)
(* Inputs.                                                                 *)
(***************************************************************************)
SeqsUpTo(S, n) == UNION {[1..m -> S] : m \in 0..n}
DistinctSeqsUpTo(S, n) ==
    {q \in SeqsUpTo(S, n) : \A i, j \in DOMAIN q : i # j => q[i] # q[j]}

Src(ty, d) == [ty |-> ty, d |-> d]
NoSrc == Src([k |-> "none"], [k |-> "none"])
NoValue == [t |-> "none"]
NoType == [k |-> "none"]
NoDec == [r |-> "none"]

I32_MAX_plus_1 == <<0, 0, 2^15, 0>>
I64_MAX_plus_1 == <<2^15, 0, 0, 0>>

NumSrc(k, n) == Src(TPrim(k), DNum(k, n))

\* primitives, with the values at the edges of each integer type
PrimSources ==
    {Src(TPrim("bool"), DBool(b)) : b \in BOOLEAN}
    \cup {NumSrc(k, n) : k \in {"i8", "i16", "i32", "i64"}, n \in {I8_MIN, ZeroNum, I8_MAX}}
    \cup {NumSrc(k, n) : k \in {"i16", "i32", "i64"}, n \in {I16_MIN, I16_MAX}}
    \cup {NumSrc(k, n) : k \in {"i32", "i64"}, n \in {I32_MIN, I32_MAX}}
    \cup {NumSrc("i64", n) : n \in {I64_MIN, I64_MAX, Small(27)}}
    \cup {NumSrc(k, n) : k \in {"u8", "u16", "u32", "u64"}, n \in {ZeroNum, U8_MAX}}
    \cup {NumSrc(k, n) : k \in {"u16", "u32", "u64"}, n \in {U16_MAX}}
    \cup {NumSrc(k, n) : k \in {"u32", "u64"}, n \in {I32_MAX, I32_MAX_plus_1, U32_MAX}}
    \cup {NumSrc("u64", n) : n \in {I64_MAX, I64_MAX_plus_1, U64_MAX}}
    \cup {Src(TPrim(k), DFloat(k, [lit |-> x])) : k \in FloatKinds, x \in {"0.0", "-2.25"}}
    \cup {Src(TPrim("char"), DChar("a"))}
    \cup {Src(TPrim("string"), DString(x)) : x \in {"", "foo"}}
    \cup {Src(TPrim("unit"), DUnit)}

\* the values composite sources are built from
Pool ==
    {NumSrc("i64", Small(27)), NumSrc("i64", I64_MIN),
     NumSrc("u64", Small(27)), NumSrc("u64", I64_MAX_plus_1),
     Src(TPrim("string"), DString("foo")), Src(TPrim("string"), DString("")),
     Src(TOption(TPrim("i64")), DNone),
     Src(TOption(TPrim("i64")), DSome(DNum("i64", Small(27))))}
PoolTypes == {x.ty : x \in Pool}
PoolOf(T) == {x.d : x \in {y \in Pool : y.ty = T}}

SeqSources ==
    UNION {{Src(TSeq(T), DSeq(q)) : q \in SeqsUpTo(PoolOf(T), MaxLen)} : T \in PoolTypes}

StringKeys == {DString("a"), DString("b")}
IntKeys == {DNum("i32", Small(1)), DNum("i32", Small(2))}

MapsOver(K, keys, T) ==
    UNION {{Src(TMap(K, T), DMap(m)) : m \in [ks -> PoolOf(T)]} : ks \in SUBSET keys}

MapSources ==
    UNION {MapsOver(TPrim("string"), StringKeys, T) : T \in PoolTypes}
    \cup (MapsOver(TPrim("i32"), IntKeys, TPrim("i64"))
            \ {Src(TMap(TPrim("i32"), TPrim("i64")), DMap(<<>>))})

FieldNamePool == <<"a", "b", "c", "d">>

StructOf(q) ==
    Src(TStruct([j \in DOMAIN q |-> <<FieldNamePool[j], q[j].ty>>]),
        DStruct([j \in DOMAIN q |-> <<FieldNamePool[j], q[j].d>>]))

StructSources == {StructOf(q) : q \in SeqsUpTo(Pool, MaxLen)}

\* struct Test { a: i64, b: String } of the test of to_value
TestFields == <<<<"a", TPrim("i64")>>, <<"b", TPrim("string")>>>>

\* enum E { U, N(i64), T(i64, String), S { a: i64, b: String } }
EnumVariants ==
    <<TVariant("U", "unit", <<>>),
      TVariant("N", "newtype", TPrim("i64")),
      TVariant("T", "tuple", <<TPrim("i64"), TPrim("string")>>),
      TVariant("S", "struct", TestFields)>>
EnumT == TEnum(EnumVariants)
\* enum Short { U, N(i64) }: Union indices 2 and up name no variant of it
EnumShort == TEnum(SubSeq(EnumVariants, 1, 2))

EnumSources ==
    {Src(EnumT, DEnum(0, "unit", DUnit))}
    \cup {Src(EnumT, DEnum(1, "newtype", x)) : x \in PoolOf(TPrim("i64"))}
    \cup {Src(EnumT, DEnum(2, "tuple", <<x, y>>)) :
            x \in PoolOf(TPrim("i64")), y \in PoolOf(TPrim("string"))}
    \cup {Src(EnumT, DEnum(3, "struct", <<<<"a", x>>, <<"b", y>>>>)) :
            x \in PoolOf(TPrim("i64")), y \in PoolOf(TPrim("string"))}

OptionSources ==
    {Src(TOption(x.ty), DSome(x.d)) : x \in Pool \cup EnumSources \cup {Src(TPrim("unit"), DUnit)}}
    \cup {Src(TOption(T), DNone) : T \in PoolTypes \cup {EnumT, TPrim("unit")}}

Sources ==
    PrimSources \cup SeqSources \cup MapSources \cup StructSources
    \cup EnumSources \cup OptionSources

\* Values, hand-built as the public enum allows
Symbols == {"spades", "hearts", "clubs"}
FixedSizes == {4, 5}
BytesOfLen(n) == [j \in 1..n |-> 97]

LeafValues ==
    {VNull, VBoolean(TRUE), VInt(Small(42)), VLong(Small(42)), VLong(Small(27)),
     VFloat([lit |-> "0.0"]), VDouble([lit |-> "0.0"]),
     VBytes(<<97, 98>>), VBytes(<<255>>), VString("foo")}
    \cup {VString(x) : x \in Symbols}
    \cup {VFixed(n, BytesOfLen(m)) : n \in FixedSizes, m \in FixedSizes}
    \cup {VEnum(i, x) : i \in -1..MaxLen, x \in Symbols}

InnerValues == {VNull, VInt(Small(42)), VLong(Small(42)), VString("foo"), VBoolean(TRUE)}
ItemValues == {VLong(Small(42)), VBoolean(TRUE)}
EntryValues == {VLong(Small(42)), VString("foo")}
EntryNames == {"a", "b"}

UnionValues ==
    {VUnion(i, x) : i \in 0..(MaxLen + 1), x \in InnerValues}
    \cup {VUnion(1, VUnion(i, x)) : i \in 0..1, x \in {VNull, VLong(Small(42))}}
    \cup {VUnion(2, VArray(<<VLong(Small(42)), VString("foo")>>)),
          VUnion(3, VRecord(<<<<"a", VLong(Small(42))>>, <<"b", VString("foo")>>>>)),
          VUnion(3, VArray(<<VLong(Small(42)), VString("foo")>>)),
          VUnion(2, VRecord(<<<<"a", VLong(Small(42))>>, <<"b", VString("foo")>>>>)),
          VUnion(2, VArray(<<VLong(Small(42))>>))}
ArrayValues == {VArray(q) : q \in SeqsUpTo(ItemValues, MaxLen)}
MapValues == UNION {{VMap(m) : m \in [ks -> ItemValues]} : ks \in SUBSET EntryNames}
RecordValues == {VRecord(q) : q \in SeqsUpTo(EntryNames \X EntryValues, MaxLen)}

Values ==
    LeafValues \cup UnionValues \cup ArrayValues \cup MapValues \cup RecordValues
    \cup {VRecord(<<<<"a", VUnion(1, VLong(Small(42)))>>>>), VArray(<<VArray(<<>>)>>)}

EntrySchemas == {SPrim("Long"), SPrim("String")}
VariantSchemas == {SPrim("Null"), SPrim("Int"), SPrim("Double")}

Schemas ==
    {SPrim(t) : t \in PrimTags}
    \cup {SFixed(n) : n \in FixedSizes}
    \cup {SEnum(q) : q \in DistinctSeqsUpTo(Symbols, MaxLen)}
    \cup {SUnion(q) : q \in DistinctSeqsUpTo(VariantSchemas, MaxLen) \ {<<>>}}
    \cup {SArray(x) : x \in {SPrim("Long"), SPrim("Boolean")}}
    \cup {SMap(x) : x \in {SPrim("Long"), SPrim("Boolean")}}
    \cup {SRecord(q) : q \in SeqsUpTo({RecordField(n, x) : n \in EntryNames, x \in EntrySchemas}, MaxLen)}
    \cup {SRecord(<<RecordField("a", SUnion(<<SPrim("Null"), SPrim("Long")>>))>>),
          SArray(SArray(SPrim("Long")))}

\* the shapes asked of from_value for a hand-built Value
RawTargets ==
    {TPrim(k) : k \in {"bool", "i32", "i64", "u8", "f64", "char", "string", "unit"}}
    \cup {TOption(T) : T \in {TPrim("i64"), TPrim("string"), TPrim("unit"), TPrim("bool"),
                              TOption(TPrim("i64"))}}
    \cup {TSeq(TPrim("i64")), TMap(TPrim("string"), TPrim("i64")), TStruct(TestFields), EnumT,
            EnumShort, TAny}
    \cup {TRequest(k) : k \in {"bool"} \cup IntKinds \cup FloatKinds}

(***************************************************************************)
(* The encode/decode session: to_value on a source object, then from_value *)
(* into the source's own type; or from_value on a hand-built Value.        *)
(***************************************************************************)
SerIdle == sfields = <<>> /\ scalls = <<>> /\ sout = NoDec
ValIdle == vvalue = VNull /\ vschema = SPrim("Null") /\ vresult = FALSE /\ vpc = "idle"
CodecIdle == src = NoSrc /\ value = NoValue /\ target = NoType /\ dec = NoDec /\ pc = "idle"
NoAccess == [none |-> TRUE]
NoContainer == [none |-> TRUE]
ConIdle == ckind = "none" /\ cself = NoContainer /\ ccalls = <<>> /\ cout = NoDec
AccIdle == ainput = VNull /\ akind = "none" /\ access = NoAccess /\ alog = <<>> /\ apc = "idle"
RecIdle == rschema = SPrim("Null") /\ record = None /\ rputs = <<>> /\ rpc = "idle"

Init ==
    /\ \/ /\ src \in Sources
          /\ target = src.ty
          /\ value = NoValue
          /\ pc = "src"
       \/ /\ src = NoSrc
          /\ value \in Values
          /\ target \in RawTargets
          /\ pc = "raw"
    /\ dec = NoDec
    /\ SerIdle
    /\ ValIdle
    /\ RecIdle
    /\ AccIdle
    /\ ConIdle

ToValue ==
    /\ pc = "src"
    /\ LET r == to_value(src.d)
       IN IF r.ok THEN value' = r.v /\ pc' = "encoded"
          ELSE value' = NoValue /\ pc' = "encode_failed"
    /\ UNCHANGED <<src, target, dec, serVars, valVars, recVars, accVars, conVars>>

FromValue ==
    /\ pc \in {"encoded", "raw"}
    /\ dec' = from_value(value, target)
    /\ pc' = IF pc = "encoded" THEN "decoded" ELSE "raw_decoded"
    /\ UNCHANGED <<src, value, target, serVars, valVars, recVars, accVars, conVars>>

Next == ToValue \/ FromValue

Spec == Init /\ [][Next]_vars

(***************************************************************************)
(* One StructSerializer: serialize_field calls, then end.  The caller      *)
(* returns at the first failed call.                                       *)
(***************************************************************************)
CallNames == {"a", "b"}
CallData ==
    {DNum("i64", Small(27)), DString("foo"), DNum("u64", I64_MAX_plus_1), DNone}

SerInit ==
    /\ sfields = StructSerializer_new
    /\ scalls = <<>>
    /\ sout = NoDec
    /\ CodecIdle
    /\ ValIdle
    /\ RecIdle
    /\ AccIdle
    /\ ConIdle

SerializeField(name, d) ==
    /\ sout = NoDec
    /\ Len(scalls) < MaxCalls
    /\ LET s == StructSerializer_serialize_field(sfields, name, d)
       IN /\ sfields' = s.self
          /\ sout' = IF s.ok THEN sout ELSE Err
    /\ scalls' = Append(scalls, <<name, d>>)
    /\ UNCHANGED <<codecVars, valVars, recVars, accVars, conVars>>

End ==
    /\ sout = NoDec
    /\ sout' = StructSerializer_end(sfields)
    /\ UNCHANGED <<sfields, scalls, codecVars, valVars, recVars, accVars, conVars>>

SerNext ==
    \/ \E name \in CallNames, d \in CallData : SerializeField(name, d)
    \/ End

SpecSer == SerInit /\ [][SerNext]_vars

(***************************************************************************)
(* One call of Value::validate.                                            *)
(***************************************************************************)
ValInit ==
    /\ vvalue \in Values
    /\ vschema \in Schemas
    /\ vresult = FALSE
    /\ vpc = "start"
    /\ CodecIdle
    /\ SerIdle
    /\ RecIdle
    /\ AccIdle
    /\ ConIdle

Validate ==
    /\ vpc = "start"
    /\ vresult' = validate(vvalue, vschema)
    /\ vpc' = "done"
    /\ UNCHANGED <<vvalue, vschema, codecVars, serVars, recVars, accVars, conVars>>

ValNext == Validate

SpecValidate == ValInit /\ [][ValNext]_vars

(***************************************************************************)
(* One Record builder: Record::new on a schema, then put calls.            *)
(***************************************************************************)
\* The lookup of a Schema::Record: empty, as in the hand-built schema of the
\* tests of validate, or a table from every field name to a position that holds
\* that name
Lookups(fields) ==
    {<<>>} \cup
    {m \in [{fields[j].name : j \in DOMAIN fields} -> 0..(Len(fields) - 1)] :
        \A n \in DOMAIN m : fields[m[n] + 1].name = n}

BuilderSchemas ==
    UNION {{SRecordLookup(q, m) : m \in Lookups(q)} :
            q \in SeqsUpTo({RecordField(n, SPrim("Long")) : n \in EntryNames}, MaxLen)}
    \cup {SPrim("Long"), SArray(SPrim("Long")), SEnum(<<"spades">>)}

PutNames == {"a", "b", "c"}
PutData == {DNum("i64", Small(27)), DSome(DString("foo"))}

RecInit ==
    /\ rschema \in BuilderSchemas
    /\ record = None
    /\ rputs = <<>>
    /\ rpc = "start"
    /\ CodecIdle
    /\ SerIdle
    /\ ValIdle
    /\ AccIdle
    /\ ConIdle

New ==
    /\ rpc = "start"
    /\ record' = Record_new(rschema)
    /\ rpc' = "built"
    /\ UNCHANGED <<rschema, rputs, codecVars, serVars, valVars, accVars, conVars>>

Put(field, v) ==
    /\ rpc = "built"
    /\ record.some
    /\ Len(rputs) < MaxCalls
    /\ IF field \in DOMAIN record.v.schema_lookup
          /\ record.v.schema_lookup[field] >= Len(record.v.fields)
       THEN rpc' = "abort" /\ record' = record
       ELSE rpc' = rpc /\ record' = Some(Record_put(record.v, field, v))
    /\ rputs' = Append(rputs, <<field, v>>)
    /\ UNCHANGED <<rschema, codecVars, serVars, valVars, accVars, conVars>>

RecNext ==
    \/ New
    \/ \E field \in PutNames, v \in PutData : Put(field, v)

SpecRecord == RecInit /\ [][RecNext]_vars

(***************************************************************************)
(* One access session: a sequence, map or struct request on a Value, then  *)
(* the calls the caller's visitor makes on the deserializer it is given.   *)
(* The visitor is any caller: it may call in any order and go on after a   *)
(* failed call.                                                            *)
(***************************************************************************)
AccessInputs ==
    ArrayValues \cup MapValues \cup RecordValues
    \cup {VNull, VLong(Small(42)), VString("foo"), VBytes(<<97, 98>>),
          VUnion(1, VArray(<<VLong(Small(42))>>))}

\* the types the visitor decodes elements and values into
SeedTypes == {TPrim("i64"), TPrim("bool"), TPrim("string")}

Call(name, T, res) == [call |-> name, seed |-> T, res |-> res]

AccInit ==
    /\ ainput \in AccessInputs
    /\ akind = "none"
    /\ access = NoAccess
    /\ alog = <<>>
    /\ apc = "start"
    /\ CodecIdle
    /\ SerIdle
    /\ ValIdle
    /\ RecIdle
    /\ ConIdle

\* deserialize_seq, deserialize_tuple, deserialize_tuple_struct
DeserializeSeq ==
    /\ apc = "start"
    /\ akind' = "seq"
    /\ IF ainput.t = "Array"
       THEN access' = SeqDeserializer_new(ainput.items) /\ apc' = "visiting"
       ELSE access' = access /\ apc' = "refused"
    /\ UNCHANGED <<ainput, alog, codecVars, serVars, valVars, recVars, conVars>>

DeserializeMap ==
    /\ apc = "start"
    /\ akind' = "map"
    /\ IF ainput.t = "Map"
       THEN access' = MapDeserializer_new(ainput.m) /\ apc' = "visiting"
       ELSE access' = access /\ apc' = "refused"
    /\ UNCHANGED <<ainput, alog, codecVars, serVars, valVars, recVars, conVars>>

DeserializeStruct ==
    /\ apc = "start"
    /\ akind' = "struct"
    /\ IF ainput.t = "Record"
       THEN access' = StructDeserializer_new(ainput.fields) /\ apc' = "visiting"
       ELSE access' = access /\ apc' = "refused"
    /\ UNCHANGED <<ainput, alog, codecVars, serVars, valVars, recVars, conVars>>

Visiting(kind) == apc = "visiting" /\ akind = kind /\ Len(alog) < MaxSteps

Returned(name, T, e) ==
    /\ access' = e.self
    /\ alog' = Append(alog, Call(name, T, e.res))
    /\ UNCHANGED <<ainput, akind, apc, codecVars, serVars, valVars, recVars, conVars>>

NextElement(T) ==
    /\ Visiting("seq")
    /\ Returned("next_element", T, SeqDeserializer_next_element_seed(access, T))

MapNextKey ==
    /\ Visiting("map")
    /\ Returned("next_key", TPrim("string"),
                MapDeserializer_next_key_seed(access, TPrim("string")))

MapNextValue(T) ==
    /\ Visiting("map")
    /\ Returned("next_value", T, MapDeserializer_next_value_seed(access, T))

StructNextKey ==
    /\ Visiting("struct")
    /\ Returned("next_key", TPrim("string"), StructDeserializer_next_key_seed(access))

StructNextValue(T) ==
    /\ Visiting("struct")
    /\ Returned("next_value", T, StructDeserializer_next_value_seed(access, T))

AccNext ==
    \/ DeserializeSeq
    \/ DeserializeMap
    \/ DeserializeStruct
    \/ \E T \in SeedTypes : NextElement(T)
    \/ MapNextKey
    \/ \E T \in SeedTypes : MapNextValue(T)
    \/ StructNextKey
    \/ \E T \in SeedTypes : StructNextValue(T)

SpecAccess == AccInit /\ [][AccNext]_vars

(***************************************************************************)
(* One container serializer: a SeqSerializer, MapSerializer or             *)
(* StructSerializer as serialize_seq, serialize_map or serialize_struct    *)
(* returns it, the calls the caller's Serialize implementation makes on    *)
(* it, then end.  The caller is any caller: it may call in any order and   *)
(* go on after a failed call.                                              *)
(***************************************************************************)
ElementData == {DNum("i64", Small(27)), DString("foo"), DNum("u64", I64_MAX_plus_1)}
KeyData == {DString("a"), DString("b"), DNum("i32", Small(27))}

ConInit ==
    /\ \/ ckind = "seq" /\ cself = SeqSerializer_new
       \/ ckind = "map" /\ cself = MapSerializer_new
       \/ ckind = "struct" /\ cself = StructSerializer_new
    /\ ccalls = <<>>
    /\ cout = NoDec
    /\ CodecIdle
    /\ SerIdle
    /\ ValIdle
    /\ RecIdle
    /\ AccIdle

Calling(kind) == ckind = kind /\ cout = NoDec /\ Len(ccalls) < MaxSteps

Called(name, d, s) ==
    /\ cself' = s.self
    /\ ccalls' = Append(ccalls, [call |-> name, d |-> d, ok |-> s.ok])
    /\ UNCHANGED <<ckind, cout, codecVars, serVars, valVars, recVars, accVars>>

SerializeElement(d) ==
    /\ Calling("seq")
    /\ Called("serialize_element", d, SeqSerializer_serialize_element(cself, d))

SerializeKey(d) ==
    /\ Calling("map")
    /\ Called("serialize_key", d, MapSerializer_serialize_key(cself, d))

SerializeValue(d) ==
    /\ Calling("map")
    /\ Called("serialize_value", d, MapSerializer_serialize_value(cself, d))

SerializeStructField(name, d) ==
    /\ Calling("struct")
    /\ Called("serialize_field", <<name, d>>, StructSerializer_serialize_field(cself, name, d))

ContainerEnd ==
    /\ ckind # "none" /\ cout = NoDec
    /\ cout' = CASE ckind = "seq" -> SeqSerializer_end(cself)
                 [] ckind = "map" -> MapSerializer_end(cself)
                 [] OTHER -> StructSerializer_end(cself)
    /\ UNCHANGED <<ckind, cself, ccalls, codecVars, serVars, valVars, recVars, accVars>>

ConNext ==
    \/ \E d \in ElementData : SerializeElement(d)
    \/ \E d \in KeyData : SerializeKey(d)
    \/ \E d \in ElementData : SerializeValue(d)
    \/ \E name \in CallNames, d \in ElementData : SerializeStructField(name, d)
    \/ ContainerEnd

SpecContainer == ConInit /\ [][ConNext]_vars

(***************************************************************************)
(* Claims.                                                                 *)
(***************************************************************************)
\* what the specification itself declares not encodable or not decodable: an
\* unsigned 64-bit value above the signed range, a char, a map key that is not
\* a string
RECURSIVE SpecExcludes(_)
SpecExcludes(d) ==
    CASE d.k = "u64" -> ~NumLE(d.n, I64_MAX)
      [] d.k = "char" -> TRUE
      [] d.k = "some" -> SpecExcludes(d.v)
      [] d.k = "seq" -> \E j \in DOMAIN d.items : SpecExcludes(d.items[j])
      [] d.k = "map" -> \E key \in DOMAIN d.m : key.k # "string" \/ SpecExcludes(d.m[key])
      [] d.k = "struct" -> \E j \in DOMAIN d.fields : SpecExcludes(d.fields[j][2])
      [] d.k = "enum" /\ d.kind = "newtype" -> SpecExcludes(d.p)
      [] d.k = "enum" /\ d.kind = "tuple" -> \E j \in DOMAIN d.p : SpecExcludes(d.p[j])
      [] d.k = "enum" /\ d.kind = "struct" -> \E j \in DOMAIN d.p : SpecExcludes(d.p[j][2])
      [] OTHER -> FALSE

\* C1: round trip.  For every source object of a primitive, optional, sequence,
\* string-keyed map, struct or enum shape (unit, single-value, positional-fields
\* and named-fields variants), to_value succeeds and from_value of the produced
\* Value into the same type succeeds and returns a value equal to the original.
\* Stated over the sources the specification does not itself exclude.
C1_RoundTrip ==
    (src # NoSrc /\ ~SpecExcludes(src.d)) =>
        /\ pc # "encode_failed"
        /\ pc = "decoded" => dec = DOk(src.d)

EncodedCalls == [j \in DOMAIN scalls |-> <<scalls[j][1], to_value(scalls[j][2]).v>>]

\* C2: encoding a named-field struct yields Record whose entries are exactly the
\* struct's fields, one per serialize_field call, in call order, each pairing the
\* field name with the encoding of the field's value.
C2_StructRecord ==
    (sout # NoDec /\ sout.ok) => sout = Ok(VRecord(EncodedCalls))

\* C2 witness: {a: 27i64, b: "foo"} has become Record([("a", Long(27)), ("b", String("foo"))])
C2_Witness ==
    /\ scalls = <<<<"a", DNum("i64", Small(27))>>, <<"b", DString("foo")>>>>
    /\ sout = Ok(VRecord(<<<<"a", VLong(Small(27))>>, <<"b", VString("foo")>>>>))

Present(r) == IF r.r = "ok" THEN DOk(DSome(r.v)) ELSE r

\* C3: optional convention.  None encodes to Union(0, Null) and Some(x) to
\* Union(1, encode(x)); an optional request on Union(0, Null) yields absent, on
\* Union(1, v) present with v recursively decoded, and on every other Value
\* (index 0 with a payload that is not Null, index >= 2, not a Union) fails.
C3_Optional ==
    /\ src.d.k = "none" => pc # "encode_failed"
    /\ (pc \in {"encoded", "decoded"} /\ src.d.k = "none") => value = VUnion(0, VNull)
    /\ (pc \in {"encoded", "decoded"} /\ src.d.k = "some") =>
            value = VUnion(1, to_value(src.d.v).v)
    /\ (pc \in {"decoded", "raw_decoded"} /\ target.k = "option") =>
            IF value = VUnion(0, VNull) THEN dec = DOk(DNone)
            ELSE IF value.t = "Union" /\ value.i = 1
                 THEN dec = Present(from_value(value.v, target.of))
                 ELSE dec = DErr

\* C3 witness: an optional request on Union(0, payload) with a payload that is
\* not Null has failed
C3_Witness ==
    /\ pc = "raw_decoded"
    /\ target.k = "option"
    /\ value.t = "Union" /\ value.i = 0 /\ value.v # VNull
    /\ dec = DErr

KeyNotString(key) == LET r == to_value(key) IN r.ok /\ r.v.t # "String"

\* C4: encoding a map fails whenever some key encodes to a Value other than
\* String, and no Value is produced.
C4_MapKey ==
    (pc # "src" /\ src.d.k = "map" /\ \E key \in DOMAIN src.d.m : KeyNotString(key)) =>
        pc = "encode_failed" /\ value = NoValue

\* C4 witness: a map with an integer key has failed to encode
C4_Witness ==
    /\ pc = "encode_failed"
    /\ src.d.k = "map"
    /\ \E key \in DOMAIN src.d.m : key.k = "i32"

\* C5: encoding an unsigned 64-bit value v fails iff v > 2^63 - 1; every other v
\* encodes to Long(v).
C5_U64 ==
    (pc # "src" /\ src.d.k = "u64") =>
        /\ pc = "encode_failed" <=> ~NumLE(src.d.n, <<2^15 - 1, 2^16 - 1, 2^16 - 1, 2^16 - 1>>)
        /\ pc # "encode_failed" => value = VLong(src.d.n)

\* C5 witness: 2^63 has failed to encode
C5_Witness ==
    /\ pc = "encode_failed"
    /\ src.d = DNum("u64", <<2^15, 0, 0, 0>>)

Swapped(fields) == <<fields[2], fields[1]>>

\* C6: validate on a Record against a Record schema is true iff the value has as
\* many entries as the schema has fields and at every position the names are
\* equal and the value validates against the field's schema; so swapping the two
\* differently-named fields of a valid record makes it invalid.
C6_Record ==
    (vpc = "done" /\ vvalue.t = "Record" /\ vschema.t = "Record") =>
        /\ vresult <=>
              /\ Len(vvalue.fields) = Len(vschema.fields)
              /\ \A j \in DOMAIN vvalue.fields :
                    /\ vvalue.fields[j][1] = vschema.fields[j].name
                    /\ validate(vvalue.fields[j][2], vschema.fields[j].schema)
        /\ (vresult /\ Len(vvalue.fields) = 2 /\ vvalue.fields[1][1] # vvalue.fields[2][1]) =>
              ~validate(VRecord(Swapped(vvalue.fields)), vschema)

\* C6 witness: a record with the right fields in the wrong order was refused
C6_Witness ==
    /\ vpc = "done"
    /\ vvalue = VRecord(<<<<"b", VString("foo")>>, <<"a", VLong(Small(42))>>>>)
    /\ vschema = SRecord(<<RecordField("a", SPrim("Long")), RecordField("b", SPrim("String"))>>)
    /\ ~vresult

\* C7: validate on Enum(index, symbol) against an Enum schema is true iff the
\* symbol list has an entry at position index and it equals symbol; a bare String
\* validates iff it is one of the listed symbols.
C7_Enum ==
    (vpc = "done" /\ vschema.t = "Enum") =>
        /\ vvalue.t = "Enum" =>
              (vresult <=>
                  /\ vvalue.i \in 0..(Len(vschema.symbols) - 1)
                  /\ vschema.symbols[vvalue.i + 1] = vvalue.s)
        /\ vvalue.t = "String" =>
              (vresult <=> \E j \in DOMAIN vschema.symbols : vschema.symbols[j] = vvalue.s)

\* C7 witness: a symbol listed only at another position was refused
C7_Witness ==
    /\ vpc = "done"
    /\ vvalue = VEnum(1, "spades")
    /\ vschema = SEnum(<<"spades", "hearts">>)
    /\ ~vresult

Listed(symbols, x) == \E j \in DOMAIN symbols : symbols[j] = x

\* C8 as stated: validate on Enum(index, symbol) is true whenever symbol is one of
\* the listed symbols, regardless of the stored index.
C8_AnyIndex ==
    (vpc = "done" /\ vvalue.t = "Enum" /\ vschema.t = "Enum"
        /\ Listed(vschema.symbols, vvalue.s)) => vresult

\* C8 as amended: validate on Enum(index, symbol) is true whenever symbol is the
\* listed symbol at the stored index, and false when symbol is listed only at
\* other positions.
C8_AtStoredIndex ==
    (vpc = "done" /\ vvalue.t = "Enum" /\ vschema.t = "Enum"
        /\ Listed(vschema.symbols, vvalue.s)) =>
        LET at == {j \in DOMAIN vschema.symbols : vschema.symbols[j] = vvalue.s}
        IN IF vvalue.i + 1 \in at THEN vresult ELSE ~vresult

\* C8 witness: a symbol stored with the index of its position, not the first, was accepted
C8_Witness ==
    /\ vpc = "done"
    /\ vvalue = VEnum(1, "hearts")
    /\ vschema = SEnum(<<"spades", "hearts">>)
    /\ vresult

\* C9: validate on Fixed(n, bytes) against a Fixed schema of size s is true iff
\* n = s, whatever the length of the payload.
C9_Fixed ==
    (vpc = "done" /\ vvalue.t = "Fixed" /\ vschema.t = "Fixed") =>
        (vresult <=> vvalue.size = vschema.size)

\* C9 witness: Fixed(4, ..) carrying 5 bytes was accepted by the size-4 schema
C9_Witness ==
    /\ vpc = "done"
    /\ vvalue.t = "Fixed" /\ vvalue.size = 4 /\ Len(vvalue.bytes) = 5
    /\ vschema = SFixed(4)
    /\ vresult

\* C10: validate on Union(i, inner) against a Union schema is true iff the schema
\* has a variant at index i and inner validates against it; for an index beyond
\* the variants it answers false.
C10_Union ==
    (vpc = "done" /\ vvalue.t = "Union" /\ vschema.t = "Union") =>
        /\ vresult \in BOOLEAN
        /\ vresult <=>
              /\ vvalue.i < Len(vschema.schemas)
              /\ validate(vvalue.v, vschema.schemas[vvalue.i + 1])

\* C10 witness: an index beyond the schema's variants was answered with false
C10_Witness ==
    /\ vpc = "done"
    /\ vvalue.t = "Union" /\ vschema.t = "Union"
    /\ vvalue.i >= Len(vschema.schemas)
    /\ ~vresult

\* C11: an enum decode request on Union(index, payload) with index greater than
\* or equal to the number of variants the caller declares returns a decode error
\* value, not an abort; an enum request on a Value that is not a Union returns a
\* decode error too.
C11_EnumIndex ==
    (pc = "raw_decoded" /\ target.k = "enum") =>
        /\ (value.t = "Union" /\ value.i >= Len(target.variants)) => dec = DErr
        /\ value.t # "Union" => dec = DErr

\* the visit call that carries a Value of the given tag, with its payload
VisitAt(v) ==
    CASE v.t = "Null" -> [visit |-> "unit"]
      [] v.t = "Boolean" -> [visit |-> "bool", b |-> v.b]
      [] v.t = "Int" -> [visit |-> "i32", n |-> v.n]
      [] v.t = "Long" -> [visit |-> "i64", n |-> v.n]
      [] v.t = "Float" -> [visit |-> "f32", x |-> v.x]
      [] OTHER -> [visit |-> "f64", x |-> v.x]

AnyTags == {"Null", "Boolean", "Int", "Long", "Float", "Double"}

\* C12: an 'any' decode request succeeds, handing the visitor the payload at the
\* Value's own tag, exactly when the Value is Null, Boolean, Int, Long, Float or
\* Double; against String, Bytes, Fixed, Enum, Union, Array, Map or Record it
\* returns a decode error.
C12_Any ==
    (pc = "raw_decoded" /\ target = TAny) =>
        /\ value.t \in AnyTags => dec = DOk(VisitAt(value))
        /\ value.t \in {"String", "Bytes", "Fixed", "Enum", "Union", "Array", "Map", "Record"}
                => dec = DErr
        /\ value.t \in AnyTags
                \cup {"String", "Bytes", "Fixed", "Enum", "Union", "Array", "Map", "Record"}

\* C12 witness: an 'any' request on String("foo") has returned a decode error
C12_Witness ==
    /\ pc = "raw_decoded" /\ target = TAny
    /\ value = VString("foo")
    /\ dec = DErr

NamesOf(fields) == [j \in DOMAIN fields |-> fields[j][1]]
SchemaNames(schema) == [j \in DOMAIN schema.fields |-> schema.fields[j].name]
PutSoFar == {rputs[j][1] : j \in DOMAIN rputs}

\* C13: Record builder invariant.  Record::new on a Record schema returns a
\* builder whose fields list has one entry per schema field, in schema
\* declaration order, all holding Null, and returns None for any schema that is
\* not a Record; after any sequence of put calls the fields list still has
\* exactly the schema's field names in declaration order, and every field that
\* was never put still holds Null.
C13_Builder ==
    rpc = "built" =>
        IF rschema.t = "Record"
        THEN /\ record.some
             /\ NamesOf(record.v.fields) = SchemaNames(rschema)
             /\ \A j \in DOMAIN record.v.fields :
                    record.v.fields[j][1] \notin PutSoFar => record.v.fields[j][2] = VNull
        ELSE record = None

\* C13 witness: on the schema (a, b), after put("c", ..) and put("b", 27) the
\* builder holds (a, Null), (b, Long(27))
C13_Witness ==
    /\ rpc = "built" /\ record.some
    /\ Len(rputs) = 2 /\ rputs[1][1] = "c" /\ rputs[2] = <<"b", DNum("i64", Small(27))>>
    /\ record.v.fields = <<<<"a", VNull>>, <<"b", VLong(Small(27))>>>>

UnsignedKinds == {"u8", "u16", "u32", "u64"}
FitsI32(n) == NumLE(n, <<0, 0, 2^15 - 1, 2^16 - 1>>)

\* C14: every unsigned source value encodes to the smallest sufficient signed
\* Value type: Int when the value fits in a 32-bit signed integer and Long
\* otherwise, for all unsigned widths (8, 16, 32 and 64 bit).
C14_SmallestSigned ==
    (pc \in {"encoded", "decoded"} /\ src.d.k \in UnsignedKinds) =>
        value = IF FitsI32(src.d.n) THEN VInt(src.d.n) ELSE VLong(src.d.n)

\* C14, as the code has it: an 8, 16 or 32 bit unsigned value encodes to Int
\* when it fits in a 32-bit signed integer and to Long otherwise; a 64-bit
\* unsigned value that encodes at all encodes to Long, however small it is.
C14_ByWidth ==
    (pc \in {"encoded", "decoded"} /\ src.d.k \in UnsignedKinds) =>
        value = IF src.d.k # "u64" /\ FitsI32(src.d.n)
                THEN VInt(src.d.n) ELSE VLong(src.d.n)

\* C14 witness: the 32-bit unsigned 2^31 has become Long(2^31)
C14_Witness ==
    /\ pc = "encoded"
    /\ src.d = DNum("u32", <<0, 0, 2^15, 0>>)
    /\ value = VLong(<<0, 0, 2^15, 0>>)

\* the payload the claim gives a variant
Payload(d) ==
    CASE d.kind = "unit" -> VNull
      [] d.kind = "newtype" -> to_value(d.p).v
      [] d.kind = "tuple" -> VArray([j \in DOMAIN d.p |-> to_value(d.p[j]).v])
      [] OTHER -> VRecord([j \in DOMAIN d.p |-> <<d.p[j][1], to_value(d.p[j][2]).v>>])

\* C15: encoding an enum variant with ordinal k yields Union(k, P) where P is
\* Null for a unit variant, encode(value) for a single-value variant, Array of
\* the encoded positional values in order for a positional-fields variant, and
\* Record of the (name, encoded value) pairs in order for a named-fields variant.
C15_Variant ==
    (src.d.k = "enum" /\ pc # "src") =>
        /\ pc # "encode_failed"
        /\ value = VUnion(src.d.idx, Payload(src.d))

\* C15 witness: E::T(27, "foo"), of ordinal 2, has become
\* Union(2, Array([Long(27), String("foo")]))
C15_Witness ==
    /\ pc = "encoded"
    /\ src.d = DEnum(2, "tuple", <<DNum("i64", Small(27)), DString("foo")>>)
    /\ value = VUnion(2, VArray(<<VLong(Small(27)), VString("foo")>>))

\* a next_key call that yielded a name has been made since the last next_value
\* call before call j
KeySince(j) ==
    \E i \in 1..(j - 1) :
        /\ alog[i].call = "next_key" /\ alog[i].res.r = "ok"
        /\ \A h \in (i + 1)..(j - 1) : alog[h].call # "next_value"

HandedOut(name, j) ==
    Cardinality({i \in 1..j : alog[i].call = name /\ alog[i].res.r = "ok"})

C17_MapLockstep ==
    akind = "map" =>
        \A j \in DOMAIN alog :
            /\ (alog[j].call = "next_value" /\ ~KeySince(j)) => alog[j].res = DErr
            /\ HandedOut("next_value", j) <= HandedOut("next_key", j)

\* C20: a sequence or tuple decode request is accepted only for Value::Array,
\* any other Value being a decode error; the sequence decoder then hands out
\* the array's elements one per next_element call in stored order, each exactly
\* once, and every next_element call made after the last element returns the
\* end signal without error, however many times it is repeated.
C20_Seq ==
    akind = "seq" =>
        /\ apc = "visiting" <=> ainput.t = "Array"
        /\ apc = "refused" <=> ainput.t # "Array"
        /\ \A j \in DOMAIN alog :
                /\ alog[j].call = "next_element"
                /\ alog[j].res = IF j <= Len(ainput.items)
                                 THEN from_value(ainput.items[j], alog[j].seed)
                                 ELSE DEnd

\* C20 witness: on Array([Long(42)]) the first next_element has yielded 42 and
\* two more have each returned the end signal
C20_Witness ==
    /\ akind = "seq" /\ ainput = VArray(<<VLong(Small(42))>>)
    /\ Len(alog) = 3
    /\ alog[1].res = DOk(DNum("i64", Small(42)))
    /\ alog[2].res = DEnd /\ alog[3].res = DEnd

\* the variant the caller's enum declares at the Value's index
InRange == value.t = "Union" /\ value.i < Len(target.variants)
VariantAt == target.variants[value.i + 1]
Wrapped(r) == IF r.r = "ok" THEN DOk(DEnum(value.i, VariantAt.kind, r.v)) ELSE r

\* C18: decoding Union(k, payload) as an enum whose k-th variant is a
\* single-value variant decodes payload recursively into the variant's inner type
\* and returns a result value, success or decode error; it never aborts.
C18_Newtype ==
    (pc \in {"decoded", "raw_decoded"} /\ target.k = "enum" /\ InRange
        /\ VariantAt.kind = "newtype") =>
            /\ dec # DAbort
            /\ dec = Wrapped(from_value(value.v, VariantAt.of))

\* C19: when decoding Union(k, payload) as an enum with an in-range k, a unit
\* variant succeeds for every payload (the payload is ignored); a
\* positional-fields variant succeeds only if payload is an Array and otherwise
\* returns a decode error; a named-fields variant succeeds only if payload is a
\* Record and otherwise returns a decode error.
C19_PayloadKind ==
    (pc = "raw_decoded" /\ target.k = "enum" /\ InRange) =>
        /\ VariantAt.kind = "unit" => dec = DOk(DEnum(value.i, "unit", DUnit))
        /\ VariantAt.kind = "tuple" =>
                /\ dec.r = "ok" => value.v.t = "Array"
                /\ value.v.t # "Array" => dec = DErr
        /\ VariantAt.kind = "struct" =>
                /\ dec.r = "ok" => value.v.t = "Record"
                /\ value.v.t # "Record" => dec = DErr

\* C19 witness: Union(0, String("foo")) has decoded to the unit variant U
C19_Witness ==
    /\ pc = "raw_decoded" /\ target = EnumT
    /\ value = VUnion(0, VString("foo"))
    /\ dec = DOk(DEnum(0, "unit", DUnit))

\* strict alternation: a next_value call follows each next_key call that yielded
\* a name, and is made nowhere else
Strict ==
    \A j \in DOMAIN alog :
        alog[j].call = "next_value" <=>
            (j > 1 /\ alog[j - 1].call = "next_key" /\ alog[j - 1].res.r = "ok")

\* the number of next_key calls among the first j calls
KeyCalls(j) == Cardinality({i \in 1..j : alog[i].call = "next_key"})

\* C21: under strict key/value alternation, the struct decoder over
\* Record(f_1..f_n) yields exactly the stored pairs (name_i, value_i) for
\* i = 1..n in stored order, each once, whatever field list the caller declared
\* (no reordering, renaming, skipping or defaulting), and then reports the end of
\* the fields on every further key request.
C21_StructReplay ==
    (akind = "struct" /\ Strict) =>
        \A j \in DOMAIN alog :
            LET i == KeyCalls(j)
            IN IF alog[j].call = "next_key"
               THEN alog[j].res = IF i <= Len(ainput.fields)
                                  THEN DOk(ainput.fields[i][1]) ELSE DEnd
               ELSE alog[j].res = from_value(ainput.fields[i][2], alog[j].seed)

\* C21 witness: Record([(b, String("foo")), (a, Long(42))]) has been replayed as
\* b, "foo", a, 42 and then the end of the fields
C21_Witness ==
    /\ akind = "struct"
    /\ ainput = VRecord(<<<<"b", VString("foo")>>, <<"a", VLong(Small(42))>>>>)
    /\ Len(alog) = 5
    /\ [j \in DOMAIN alog |-> alog[j].call]
        = <<"next_key", "next_value", "next_key", "next_value", "next_key">>
    /\ alog[1].res = DOk("b") /\ alog[2].res = DOk(DString("foo"))
    /\ alog[3].res = DOk("a") /\ alog[4].res = DOk(DNum("i64", Small(42)))
    /\ alog[5].res = DEnd

\* the calls of the given name among the first j that returned Ok
OkCalls(name, j) == {i \in 1..j : ccalls[i].call = name /\ ccalls[i].ok}

\* the keys serialized, and for a key the last call that serialized it
KeysCalled == {ccalls[i].d.s : i \in OkCalls("serialize_key", Len(ccalls))}
LastCall(key) ==
    CHOOSE i \in OkCalls("serialize_key", Len(ccalls)) :
        /\ ccalls[i].d.s = key
        /\ \A h \in OkCalls("serialize_key", Len(ccalls)) : ccalls[h].d.s = key => h <= i

\* the index recorded by call i: the number of values buffered before it
IndexAt(i) == Cardinality(OkCalls("serialize_value", i - 1))

\* the value buffered at index n, encoded
BufferedAt(n) ==
    to_value(ccalls[CHOOSE i \in OkCalls("serialize_value", Len(ccalls)) : IndexAt(i) = n].d).v

\* C22: map encode finalization.  For every sequence of serialize_key /
\* serialize_value calls followed by end, end never fails; the produced Map
\* contains a key only if a value was buffered at the index recorded for that
\* key (a key whose value index is missing, such as a trailing key with no value,
\* is dropped), each remaining key is bound to the value at its recorded index,
\* and when the same key is serialized more than once the binding from its last
\* occurrence wins.
C22_MapEnd ==
    (ckind = "map" /\ cout # NoDec) =>
        /\ cout.ok
        /\ cout.v.t = "Map"
        /\ DOMAIN cout.v.m =
                {key \in KeysCalled :
                    IndexAt(LastCall(key)) < Cardinality(OkCalls("serialize_value", Len(ccalls)))}
        /\ \A key \in DOMAIN cout.v.m : cout.v.m[key] = BufferedAt(IndexAt(LastCall(key)))

\* C22 witness: key a, value 27, key a, value "foo", key b, end has produced
\* Map({a: String("foo")}): the last recording for a, index 1, wins, and b,
\* recorded at index 2 where no value was buffered, is dropped
C22_Witness ==
    /\ ckind = "map"
    /\ [j \in DOMAIN ccalls |-> ccalls[j].call]
        = <<"serialize_key", "serialize_value", "serialize_key", "serialize_value",
            "serialize_key">>
    /\ ccalls[1].d = DString("a") /\ ccalls[2].d = DNum("i64", Small(27))
    /\ ccalls[3].d = DString("a") /\ ccalls[4].d = DString("foo")
    /\ ccalls[5].d = DString("b")
    /\ cout = Ok(VMap([key \in {"a"} |-> VString("foo")]))

\* the datum the call was to encode
ItemOf(c) == IF c.call = "serialize_field" THEN c.d[2] ELSE c.d

\* C23: encode failures are local.  When encoding an element, map key, map value
\* or struct field fails inside serialize_element / serialize_key /
\* serialize_value / serialize_field, the error is returned and the container's
\* buffer (items, indices, values, fields) is left exactly as it was before the
\* call, so the previously buffered siblings are unchanged.
C23_FailureLocal ==
    [][ccalls' # ccalls =>
            LET c == ccalls'[Len(ccalls')]
            IN /\ ~to_value(ItemOf(c)).ok => ~c.ok
               /\ ~c.ok => cself' = cself]_vars

\* C23 witness: after element 27, the element 2^63 (unsigned) has failed and the
\* buffer still holds Long(27) alone
C23_Witness ==
    /\ ckind = "seq" /\ Len(ccalls) = 2
    /\ ccalls[1].ok /\ ccalls[1].d = DNum("i64", Small(27))
    /\ ~ccalls[2].ok /\ ccalls[2].d = DNum("u64", <<2^15, 0, 0, 0>>)
    /\ cself.items = <<VLong(Small(27))>>

\* C24: numeric requests never narrow or widen.  A decode request for any of
\* bool, i8, i16, i32, i64, u8, u16, u32, u64, f32, f64 behaves as an 'any'
\* request does: the visitor is offered the payload at the Value's own tag and
\* width (Int as 32-bit, Long as 64-bit, Float as 32-bit, Double as 64-bit,
\* Boolean as bool, Null as unit) whatever the requested type, and the request
\* fails for every other Value tag.
C24_NativeWidth ==
    (pc = "raw_decoded" /\ target.k = "request") =>
        /\ dec = IF value.t \in AnyTags THEN DOk(VisitAt(value)) ELSE DErr
        /\ dec = from_value(value, TAny)

\* C24 witness: a u8 request on Long(42) has been offered 42 as a 64-bit integer
C24_Witness ==
    /\ pc = "raw_decoded" /\ target = TRequest("u8")
    /\ value = VLong(Small(42))
    /\ dec = DOk([visit |-> "i64", n |-> Small(42)])

\* C25: validate is total and never faults.  For every Value and every Schema
\* it returns a boolean; it returns false whenever the Value's tag does not
\* correspond exactly to the Schema's tag (no numeric promotion: Int against Long
\* is false; Record against Null is false), the only cross-tag acceptance being
\* a String against an Enum schema; an Enum value whose index is negative or
\* beyond the symbol list returns false.
C25_Total ==
    vpc = "done" =>
        /\ vresult \in BOOLEAN
        /\ (vvalue.t # vschema.t /\ ~(vvalue.t = "String" /\ vschema.t = "Enum")) => ~vresult
        /\ (vvalue.t = "Enum" /\ vschema.t = "Enum"
                /\ (vvalue.i < 0 \/ vvalue.i >= Len(vschema.symbols))) => ~vresult

\* C25 witness: Int(42) against the Long schema has returned false
C25_Witness ==
    /\ vpc = "done"
    /\ vvalue = VInt(Small(42)) /\ vschema = SPrim("Long")
    /\ vresult = FALSE

C27_MapPairing ==
    (akind = "map" /\ Strict) =>
        \A j \in DOMAIN alog :
            IF alog[j].call = "next_key"
            THEN IF KeyCalls(j) <= Cardinality(DOMAIN ainput.m)
                 THEN /\ alog[j].res.r = "ok"
                      /\ alog[j].res.v.s \in DOMAIN ainput.m
                      /\ \A h \in 1..(j - 1) :
                            (alog[h].call = "next_key") => alog[h].res.v # alog[j].res.v
                 ELSE alog[j].res = DEnd
            ELSE alog[j].res = from_value(ainput.m[alog[j - 1].res.v.s], alog[j].seed)

\* C27 witness: over Map({a: Long(42), b: Boolean(true)}) two keys have each
\* been followed by their own value, decoded, and the third key request has
\* reported the end
C27_Witness ==
    /\ akind = "map"
    /\ ainput = VMap([key \in {"a", "b"} |->
                        IF key = "a" THEN VLong(Small(42)) ELSE VBoolean(TRUE)])
    /\ [j \in DOMAIN alog |-> alog[j].call]
        = <<"next_key", "next_value", "next_key", "next_value", "next_key">>
    /\ alog[2].res.r = "ok" /\ alog[4].res.r = "ok"
    /\ alog[5].res = DEnd

====
